---- MODULE Spec2Model ----
(***************************************************************************)
(* A model of the Python entry points of BigDL that carry original logic:  *)
(*   - Estimator.from_keras      (orca/learn/tf2/estimator.py)              *)
(*   - InferenceOptimizer.trace / quantize / optimize                       *)
(*                               (nano/tf/keras/inference/optimizer.py)     *)
(*   - TFAccelerationOption.optimize (same file)                            *)
(* External frameworks (OpenVINO, ONNX Runtime, INC, the latency and        *)
(* accuracy helpers) are modelled by what the callers can observe of them:  *)
(* each call is logged with its arguments and either returns or raises.     *)
(***************************************************************************)
EXTENDS Integers, Sequences, FiniteSets, TLC

(***************************************************************************)
(* Python values.  None is the empty tuple and a present optional value v  *)
(* is <<v>>, so that None differs from every string, the string "None"     *)
(* included.                                                                *)
(***************************************************************************)
None == <<>>
Some(v) == <<v>>

\* dict.update: the entries of b override those of a
DictUpdate(a, b) ==
    [k \in (DOMAIN a) \cup (DOMAIN b) |-> IF k \in DOMAIN b THEN b[k] ELSE a[k]]

\* d[k] = v on a dict d (adds the key when absent)
DictSet(d, k, v) ==
    [j \in (DOMAIN d) \cup {k} |-> IF j = k THEN v ELSE d[j]]

\* the empty dict {}
EmptyDict == [k \in {} |-> None]

(***************************************************************************)
(* Bounds of the model.                                                     *)
(***************************************************************************)
\* external calls of one optimize() run that do not end in the nominal way
MaxFaults == 1
\* largest workers_per_node / thread_num handed to the entry points
MaxWorkers == 2

(***************************************************************************)
(* Estimator.from_keras                                                     *)
(***************************************************************************)
Backends == {"tf2", "horovod", "spark", "ray", "TF2", ""}
ModelCreators == {"model_creator_a", "model_creator_b"}
Configs == {None, Some("config")}
CompileArgsCreators == {None, Some("compile_args_creator")}

FromKerasArgs ==
    [model_creator : ModelCreators, config : Configs, verbose : BOOLEAN,
     workers_per_node : 1..MaxWorkers,
     compile_args_creator : CompileArgsCreators,
     backend : Backends, cpu_binding : BOOLEAN]

\* the backends of the first branch: backend in {"tf2", "horovod"}
RayBackends == {"tf2", "horovod"}

\* the backend of the second branch: backend == "spark"
SparkBackend == "spark"

\* TensorFlow2Estimator(model_creator=..., ..., cpu_binding=cpu_binding)
TensorFlow2EstimatorCallMutant(a) ==
    [class |-> "TensorFlow2Estimator",
     kwargs |-> [model_creator |-> a.model_creator, config |-> a.config,
                 verbose |-> a.verbose, workers_per_node |-> a.workers_per_node,
                 backend |-> "tf2",
                 compile_args_creator |-> a.compile_args_creator,
                 cpu_binding |-> a.cpu_binding]]
TensorFlow2EstimatorCall(a) ==
    [class |-> "TensorFlow2Estimator",
     kwargs |-> [model_creator |-> a.model_creator, config |-> a.config,
                 verbose |-> a.verbose, workers_per_node |-> a.workers_per_node,
                 backend |-> a.backend,
                 compile_args_creator |-> a.compile_args_creator,
                 cpu_binding |-> a.cpu_binding]]

\* SparkTFEstimator(model_creator=..., ..., workers_per_node=workers_per_node)
SparkTFEstimatorCall(a) ==
    [class |-> "SparkTFEstimator",
     kwargs |-> [model_creator |-> a.model_creator, config |-> a.config,
                 verbose |-> a.verbose,
                 compile_args_creator |-> a.compile_args_creator,
                 workers_per_node |-> a.workers_per_node]]

\* The result of a call: what it returned or raised, and the external calls
\* it made, in order.
Returned(v, cs) == [outcome |-> "return", value |-> v, calls |-> cs]
Raised(e, cs) == [outcome |-> "raise", value |-> [class |-> e], calls |-> cs]

from_keras_mutant(a) ==
    IF a.backend \in RayBackends
    THEN Returned(TensorFlow2EstimatorCall(a), <<TensorFlow2EstimatorCall(a)>>)
    ELSE Returned(SparkTFEstimatorCall(a), <<SparkTFEstimatorCall(a)>>)
from_keras(a) ==
    IF a.backend \in RayBackends
    THEN Returned(TensorFlow2EstimatorCall(a), <<TensorFlow2EstimatorCall(a)>>)
    ELSE IF a.backend = SparkBackend
    THEN Returned(SparkTFEstimatorCall(a), <<SparkTFEstimatorCall(a)>>)
    ELSE Raised("ValueError", <<>>)

(***************************************************************************)
(* InferenceOptimizer.trace                                                 *)
(***************************************************************************)
\* models handed to trace and quantize
KerasModel == [class |-> "Model"]
NanoModel == [class |-> "NanoModel"]
Accelerators == {None, Some("openvino"), Some("onnxruntime"), Some("jit")}
ThreadNums == {None} \cup {Some(n) : n \in 1..MaxWorkers}
\* onnxruntime.SessionOptions(): both thread counts start at 0 (runtime's choice)
DefaultSessionOptions == [intra_op_num_threads |-> 0, inter_op_num_threads |-> 0]
UserSessionOptions == [intra_op_num_threads |-> 1, inter_op_num_threads |-> 1]
SessionOptionChoices == {None, Some(UserSessionOptions)}
OpenvinoConfigs == {None, Some([PERFORMANCE_HINT |-> "LATENCY"]),
                    Some([INFERENCE_PRECISION_HINT |-> "bf16"])}

TraceArgs ==
    [model : {KerasModel}, accelerator : Accelerators, input_spec : {None},
     thread_num : ThreadNums,
     onnxruntime_session_options : SessionOptionChoices,
     openvino_config : OpenvinoConfigs, logging : BOOLEAN]

\* final_openvino_option of trace
FinalOpenvinoOption(openvino_config) ==
    IF openvino_config # None
    THEN DictUpdate([INFERENCE_PRECISION_HINT |-> "f32"], openvino_config[1])
    ELSE [INFERENCE_PRECISION_HINT |-> "f32"]

\* the session options trace hands to KerasONNXRuntimeModel
TraceSessionOptions(options, thread_num) ==
    IF options = None
    THEN IF thread_num # None
         THEN [intra_op_num_threads |-> thread_num[1],
               inter_op_num_threads |-> thread_num[1]]
         ELSE DefaultSessionOptions
    ELSE options[1]

\* the last branch of trace: invalidInputError(False, "Accelerator ... is invalid.")
TraceOtherAccelerator(a) == Raised("invalidInputError", <<>>)

\* ok: whether the accelerated model's constructor returns (it may raise)
trace(a, ok) ==
    IF a.accelerator = Some("openvino")
    THEN LET call == [fn |-> "KerasOpenVINOModel", model |-> a.model,
                      thread_num |-> a.thread_num,
                      config |-> FinalOpenvinoOption(a.openvino_config),
                      logging |-> a.logging]
         IN  IF ok
             THEN Returned([class |-> "KerasOpenVINOModel", of |-> call], <<call>>)
             ELSE Raised("Exception", <<call>>)
    ELSE IF a.accelerator = Some("onnxruntime")
    THEN LET call == [fn |-> "KerasONNXRuntimeModel", model |-> a.model,
                      input_spec |-> a.input_spec,
                      onnxruntime_session_options |->
                          TraceSessionOptions(a.onnxruntime_session_options,
                                              a.thread_num)]
         IN  IF ok
             THEN Returned([class |-> "KerasONNXRuntimeModel", of |-> call], <<call>>)
             ELSE Raised("Exception", <<call>>)
    ELSE TraceOtherAccelerator(a)

(***************************************************************************)
(* InferenceOptimizer.quantize                                              *)
(***************************************************************************)
OpenVINOModel == [class |-> "KerasOpenVINOModel", of |-> [fn |-> "loaded"]]
ONNXRuntimeModel == [class |-> "KerasONNXRuntimeModel", of |-> [fn |-> "loaded"]]
Approaches == {"static", "dynamic"}
QuantMethods == {None, Some("qlinear"), Some("integer"), Some("dynamic")}
Metrics == {None, Some("metric")}
AccuracyCriteria ==
    {None, Some([absolute |-> "0.99", higher_is_better |-> FALSE])}
Xs == {"ndarray", "Dataset"}
Ys == {None, Some("ndarray")}
Batches == {None, Some(MaxWorkers)}
\* sample_size of quantize: 100 unless the caller says otherwise
DefaultSampleSize == 100

QuantizeArgs ==
    [model : {KerasModel, OpenVINOModel, ONNXRuntimeModel},
     x : Xs, y : Ys, precision : {"int8"}, accelerator : Accelerators,
     metric : Metrics, accuracy_criterion : AccuracyCriteria,
     approach : Approaches, method : QuantMethods, conf : {None},
     tuning_strategy : {None}, timeout : {None}, max_trials : {None},
     batch : Batches, thread_num : {None, Some(MaxWorkers)},
     inputs : {None}, outputs : {None}, sample_size : {DefaultSampleSize},
     onnxruntime_session_options : {None}, openvino_config : {None},
     logging : {TRUE}]

\* dict.get(k, None)
DictGet(d, k) == IF k \in DOMAIN d THEN Some(d[k]) ELSE None

\* method_map.get(method, None) of the onnxruntime branch
MethodMapMutant(method) ==
    IF method = Some("qlinear") THEN Some("onnxrt_qlinearops")
    ELSE IF method = Some("integer") THEN Some("onnxrt_integerops")
    ELSE IF method = None THEN Some("onnxrt_integerops")
    ELSE None
MethodMap(method) ==
    IF method = Some("qlinear") THEN Some("onnxrt_qlinearops")
    ELSE IF method = Some("integer") THEN Some("onnxrt_integerops")
    ELSE IF method = None THEN Some("onnxrt_qlinearops")
    ELSE None

\* the first check of quantize: invalidInputError(approach == 'static', ...)
ApproachSupportedMutant(approach) == approach \in {"static", "dynamic"}
ApproachSupported(approach) == approach = "static"

\* the check shared by optimize and quantize:
\* y is not None or isinstance(x, tf.data.Dataset)
TargetsGiven(x, y) == y # None \/ x = "Dataset"

\* calib_dataset of the branch accelerator is None
CalibDataset(a) ==
    LET ds == IF a.x = "Dataset"
              THEN [class |-> "Dataset", from |-> "x", batch |-> None]
              ELSE [class |-> "Dataset", from |-> "from_tensor_slices",
                    batch |-> None]
    IN  IF a.batch # None /\ a.batch[1] # 0
        THEN [ds EXCEPT !.batch = a.batch]
        ELSE ds

\* drop_type, higher_is_better, maximal_drop of the openvino branch
PotCriterion(a) ==
    IF a.metric # None
    THEN LET ac == IF a.accuracy_criterion = None
                   THEN [relative |-> "0.99", higher_is_better |-> TRUE]
                   ELSE a.accuracy_criterion[1]
             drop_type == IF "relative" \in DOMAIN ac THEN "relative"
                          ELSE "absolute"
         IN  [drop_type |-> Some(drop_type),
              higher_is_better |-> DictGet(ac, "higher_is_better"),
              maximal_drop |-> DictGet(ac, drop_type)]
    ELSE [drop_type |-> None, higher_is_better |-> None, maximal_drop |-> None]

\* an external call that is the last of its caller: it returns `value` or
\* raises, and is logged after the calls made before it
LastCall(before, call, value, ok) ==
    IF ok THEN Returned(value, Append(before, call))
    ELSE Raised("Exception", Append(before, call))

\* fail_at: which of the external calls that may raise does (0: none);
\* the constructor inside trace is the first, the quantization call the last
quantize(a, fail_at) ==
    IF ~ApproachSupported(a.approach) THEN Raised("invalidInputError", <<>>)
    ELSE IF ~TargetsGiven(a.x, a.y) THEN Raised("invalidInputError", <<>>)
    ELSE IF a.accelerator = None
    THEN LET call == [fn |-> "inc_quantize", model |-> a.model,
                      dataloader |-> CalibDataset(a), metric |-> a.metric,
                      framework |-> Some("tensorflow"), conf |-> a.conf,
                      approach |-> a.approach,
                      tuning_strategy |-> a.tuning_strategy,
                      accuracy_criterion |-> a.accuracy_criterion,
                      timeout |-> a.timeout, max_trials |-> a.max_trials,
                      inputs |-> a.inputs, outputs |-> a.outputs]
             built == IF a.x = "Dataset" THEN <<>>
                      ELSE <<[fn |-> "Dataset.from_tensor_slices",
                              x |-> a.x, y |-> a.y]>>
         IN  LastCall(built, call, [class |-> "QuantizedModel", of |-> call],
                      fail_at # 1)
    ELSE IF a.accelerator = Some("openvino")
    THEN LET traced == IF a.model.class = "KerasOpenVINOModel"
                       THEN Returned(a.model, <<>>)
                       ELSE trace([model |-> a.model,
                                   accelerator |-> Some("openvino"),
                                   input_spec |-> None,
                                   thread_num |-> a.thread_num,
                                   onnxruntime_session_options |-> None,
                                   openvino_config |-> a.openvino_config,
                                   logging |-> a.logging], fail_at # 1)
             crit == PotCriterion(a)
             call == [fn |-> "pot", model |-> traced.value, x |-> a.x, y |-> a.y,
                      metric |-> a.metric,
                      higher_better |-> crit.higher_is_better,
                      drop_type |-> crit.drop_type,
                      maximal_drop |-> crit.maximal_drop,
                      max_iter_num |-> a.max_trials,
                      sample_size |-> a.sample_size,
                      config |-> a.openvino_config,
                      thread_num |-> a.thread_num]
             n == Len(traced.calls) + 1
         IN  IF traced.outcome = "raise" THEN traced
             ELSE LastCall(traced.calls, call,
                           [class |-> "QuantizedModel", of |-> call],
                           fail_at # n)
    ELSE IF a.accelerator = Some("onnxruntime")
    THEN LET traced == IF a.model.class = "KerasONNXRuntimeModel"
                       THEN Returned(a.model, <<>>)
                       ELSE trace([model |-> a.model,
                                   accelerator |-> Some("onnxruntime"),
                                   input_spec |-> None,
                                   thread_num |-> a.thread_num,
                                   onnxruntime_session_options |-> None,
                                   openvino_config |-> None,
                                   logging |-> TRUE], fail_at # 1)
             call == [fn |-> "inc_quantize", model |-> traced.value,
                      dataloader |-> [x |-> a.x, y |-> a.y],
                      metric |-> a.metric,
                      framework |-> MethodMap(a.method), conf |-> a.conf,
                      approach |-> a.approach,
                      tuning_strategy |-> a.tuning_strategy,
                      accuracy_criterion |-> a.accuracy_criterion,
                      timeout |-> a.timeout, max_trials |-> a.max_trials,
                      inputs |-> a.inputs, outputs |-> a.outputs,
                      onnx_option |-> "tensorflow",
                      onnxruntime_session_options |->
                          a.onnxruntime_session_options]
             n == Len(traced.calls) + 1
         IN  IF traced.outcome = "raise" THEN traced
             ELSE LastCall(traced.calls, call,
                           [class |-> "QuantizedModel", of |-> call],
                           fail_at # n)
    ELSE Raised("invalidInputError", <<>>)

(***************************************************************************)
(* TFAccelerationOption and the table of acceleration methods               *)
(***************************************************************************)
TFAccelerationOption(name, inc, openvino, pot, onnxruntime, method) ==
    [name |-> name, inc |-> inc, openvino |-> openvino, pot |-> pot,
     onnxruntime |-> onnxruntime, method |-> method]

\* the dict keeps its insertion order
ALL_INFERENCE_ACCELERATION_METHOD ==
    << TFAccelerationOption("original", FALSE, FALSE, FALSE, FALSE, None),
       TFAccelerationOption("int8", TRUE, FALSE, FALSE, FALSE, None),
       TFAccelerationOption("openvino_fp32", FALSE, TRUE, FALSE, FALSE, None),
       TFAccelerationOption("openvino_int8", FALSE, TRUE, TRUE, FALSE, None),
       TFAccelerationOption("onnxruntime_fp32", FALSE, FALSE, FALSE, TRUE, None),
       TFAccelerationOption("onnxruntime_int8_qlinear", TRUE, FALSE, FALSE, TRUE,
                            Some("qlinear")),
       TFAccelerationOption("onnxruntime_int8_integer", TRUE, FALSE, FALSE, TRUE,
                            Some("integer")) >>

MethodNames ==
    {ALL_INFERENCE_ACCELERATION_METHOD[i].name :
        i \in DOMAIN ALL_INFERENCE_ACCELERATION_METHOD}

\* ALL_INFERENCE_ACCELERATION_METHOD[method]
Option(method) ==
    CHOOSE o \in {ALL_INFERENCE_ACCELERATION_METHOD[i] :
                     i \in DOMAIN ALL_INFERENCE_ACCELERATION_METHOD} :
        o.name = method

\* AccelerationOption.get_precision
get_precision(option) == IF option.inc \/ option.pot THEN "int8" ELSE "fp32"

\* AccelerationOption.get_accelerator
get_accelerator(option) ==
    IF option.onnxruntime THEN Some("onnxruntime")
    ELSE IF option.openvino THEN Some("openvino")
    ELSE None

\* TFAccelerationOption.optimize(model, x, y, thread_num, logging,
\* sample_size_for_pot), its keyword arguments in k; fail_at as in quantize
TFAccelerationOption_optimize(option, k, fail_at) ==
    LET accelerator == get_accelerator(option)
    IN  IF get_precision(option) = "fp32"
        THEN IF accelerator = None
             THEN Returned(k.model, <<>>)
             ELSE trace([model |-> k.model, accelerator |-> accelerator,
                         input_spec |-> None, thread_num |-> k.thread_num,
                         onnxruntime_session_options |-> None,
                         openvino_config |-> None, logging |-> k.logging],
                        fail_at # 1)
        ELSE quantize([model |-> k.model, x |-> k.x, y |-> k.y,
                       precision |-> get_precision(option),
                       accelerator |-> accelerator, metric |-> None,
                       accuracy_criterion |-> None, approach |-> "static",
                       method |-> option.method, conf |-> None,
                       tuning_strategy |-> None, timeout |-> None,
                       max_trials |-> None, batch |-> None,
                       thread_num |-> k.thread_num, inputs |-> None,
                       outputs |-> None, sample_size |-> k.sample_size_for_pot,
                       onnxruntime_session_options |-> None,
                       openvino_config |-> None, logging |-> k.logging],
                      fail_at)

(***************************************************************************)
(* available_acceleration_combination: the methods optimize will go        *)
(* through, in the order of the table, each with whether its dependencies  *)
(* are installed.                                                           *)
(***************************************************************************)
Dependencies == {"inc", "openvino", "onnxruntime"}

\* whether every dependency the option switches on is among the installed
DependenciesMet(option, installed) ==
    /\ option.inc => "inc" \in installed
    /\ (option.openvino \/ option.pot) => "openvino" \in installed
    /\ option.onnxruntime => "onnxruntime" \in installed

available_acceleration_combination(excludes, includes, full_methods, installed) ==
    LET exclude_set == IF excludes = None THEN {} ELSE excludes[1] \ {"original"}
        include_set == IF includes = None
                       THEN {full_methods[i].name : i \in DOMAIN full_methods}
                       ELSE includes[1] \cup {"original"}
        kept == SelectSeq(full_methods,
                          LAMBDA o : o.name \in include_set
                                     /\ o.name \notin exclude_set)
    IN  [i \in DOMAIN kept |-> <<kept[i].name, DependenciesMet(kept[i], installed)>>]

(***************************************************************************)
(* InferenceOptimizer.optimize                                              *)
(***************************************************************************)
\* values stored in result_map besides None: a string, and a number measured
\* on the model of a method
PyStr(s) == <<"str", s>>
Measured(what, method) == <<what, method>>

\* sample_size_for_pot after the baseline run
SlowSampleSize == 15
FastSampleSize == 100

\* isinstance(model, Model); NanoModel is a subclass of Model
IsKerasModel(model) == model.class \in {"Model", "NanoModel"}

\* direction in ['min', 'max']
DirectionValid(direction) == direction \in {"min", "max"}

\* the three invalidInputError checks at the head of optimize
OptimizeArgsValidMutant(a) ==
    /\ IsKerasModel(a.model)
    /\ TargetsGiven(a.x, a.y)
OptimizeArgsValid(a) ==
    /\ IsKerasModel(a.model)
    /\ DirectionValid(a.direction)
    /\ TargetsGiven(a.x, a.y)

\* self._calculate_accuracy as set before the loop
CalculateAccuracyMutant(validation_data, metric) ==
    ~(validation_data = None /\ metric = None)
CalculateAccuracy(validation_data, metric) ==
    ~(validation_data = None \/ metric = None)

\* int(os.getenv('OMP_NUM_THREADS')) for the values of the model
ParseInt(s) == CASE s = "1" -> 1 [] s = "2" -> 2 [] s = "3" -> 3

\* thread_num after the default from OMP_NUM_THREADS
EffectiveThreadNum(thread_num, omp) ==
    IF thread_num = None
    THEN IF omp # None THEN Some(ParseInt(omp[1])) ELSE None
    ELSE thread_num

\* result_map[method][key] = value
SetEntry(result_map, method, key, value) ==
    [result_map EXCEPT ![method] = DictSet(@, key, value)]

\* the status written when option.optimize raises
ConvertFailedStatusMutant == "fail to forward"
ConvertFailedStatus == "fail to convert"

\* the status written when the latency measurement raises
ForwardFailedStatus == "fail to forward"

\* lines 241-261: the accuracy of a method whose latency was measured.
\* s: the loop's state, acce_model: the converted model, acc_ok: whether
\* _accuracy_calculate_helper returns.  raised: the exception leaves optimize.
AccuracyStep(s, method, acce_model, acc_ok) ==
    LET call == [fn |-> "_accuracy_calculate_helper", method |-> method,
                 model |-> acce_model,
                 outcome |-> IF acc_ok THEN "return" ELSE "raise"]
    IN  IF s.calculate_accuracy
        THEN IF get_precision(Option(method)) = "fp32" /\ method # "original"
             THEN [s EXCEPT !.result_map =
                       SetEntry(@, method, "accuracy", PyStr("not recomputed"))]
             ELSE IF method = "original"
             THEN IF acc_ok
                  THEN [s EXCEPT !.calls = Append(@, call),
                                 !.result_map =
                                     SetEntry(@, method, "accuracy",
                                              Measured("accuracy", method))]
                  ELSE [s EXCEPT !.calls = Append(@, call),
                                 !.calculate_accuracy = FALSE]
             ELSE IF acc_ok
                  THEN [s EXCEPT !.calls = Append(@, call),
                                 !.result_map =
                                     SetEntry(@, method, "accuracy",
                                              Measured("accuracy", method))]
                  ELSE [s EXCEPT !.calls = Append(@, call), !.raised = TRUE]
        ELSE [s EXCEPT !.result_map = SetEntry(@, method, "accuracy", None)]

\* lines 263-265: the model is recorded unless the accuracy step raised
RecordModel(s, method, acce_model) ==
    IF s.raised THEN s
    ELSE [s EXCEPT !.result_map = SetEntry(@, method, "model", acce_model)]

\* lines 226-239: the latency of a converted model.
\* lat: "ok" (status True), "slow" (status False) or "raise".
LatencyStep(s, method, acce_model, lat, acc_ok) ==
    LET call == [fn |-> "throughput_calculate_helper", method |-> method,
                 model |-> acce_model,
                 outcome |-> IF lat = "raise" THEN "raise" ELSE "return"]
        s1 == [s EXCEPT !.calls = Append(@, call)]
    IN  IF lat = "raise"
        THEN [s1 EXCEPT !.result_map =
                  SetEntry(@, method, "status", ForwardFailedStatus)]
        ELSE LET s2 == [s1 EXCEPT !.result_map =
                            SetEntry(@, method, "latency",
                                     Measured("latency", method))]
             IN  IF lat = "slow" /\ method # "original"
                 THEN [s2 EXCEPT !.result_map =
                           SetEntry(@, method, "status", "early stopped")]
                 ELSE RecordModel(AccuracyStep(s2, method, acce_model, acc_ok),
                                  method, acce_model)

\* lines 203-265: one pass of the loop body, for available_dict's item
\* (method, available).  o: what the external calls of this pass do.  The
\* calls of option.optimize are logged, then option.optimize itself with how
\* it ended.
OptimizeMethod(s, method, available, o) ==
    LET s0 == [s EXCEPT !.result_map = DictSet(@, method, EmptyDict)]
    IN  IF ~available
        THEN [s0 EXCEPT !.result_map =
                  SetEntry(@, method, "status", "lack dependency")]
        ELSE LET conv == TFAccelerationOption_optimize(Option(method), s,
                                                       o.fail_at)
                 s1 == [s0 EXCEPT !.calls =
                            Append(@ \o conv.calls,
                                   [fn |-> "option.optimize", method |-> method,
                                    outcome |-> conv.outcome])]
             IN  IF conv.outcome = "raise"
                 THEN [s1 EXCEPT !.result_map =
                           SetEntry(@, method, "status", ConvertFailedStatus)]
                 ELSE LatencyStep(
                          [s1 EXCEPT !.result_map =
                               SetEntry(@, method, "status", "successful")],
                          method, conv.value, o.latency, o.accuracy_ok)

\* format_optimize_result(optimized_model_dict, calculate_accuracy) followed by
\* the time cost: a table made of both arguments
format_optimize_result(optimized_model_dict, calculate_accuracy) ==
    [table_of |-> optimized_model_dict, with_accuracy |-> calculate_accuracy]

(***************************************************************************)
(* The calls the model makes.                                               *)
(***************************************************************************)
IncludesChoices == {None, Some({"int8", "openvino_fp32"})}
ExcludesChoices == {None, Some({"original", "onnxruntime_int8_integer"})}

OptimizeArgs ==
    [model : {KerasModel, NanoModel, [class |-> "Sequential_torch"]},
     x : Xs, y : Ys, validation_data : {None, Some("Dataset")},
     metric : Metrics, direction : {"min", "max", "avg"},
     thread_num : {None, Some(MaxWorkers)}, logging : {FALSE},
     includes : IncludesChoices, excludes : ExcludesChoices]

\* what optimize finds around it: the installed dependencies, OMP_NUM_THREADS,
\* whether the model accepts x, and whether the baseline run took over 100 ms
OptimizeEnvs ==
    [installed : SUBSET Dependencies, omp : {None, Some("1")},
     x_compatible : BOOLEAN, baseline_slow : BOOLEAN]

\* What the external calls of one pass of the loop do.  The first call that
\* goes wrong is the last call of its pass, so a pass has at most one.
Nominal == [fail_at |-> 0, latency |-> "ok", accuracy_ok |-> TRUE]
Outcomes ==
    {Nominal}
        \cup {[Nominal EXCEPT !.fail_at = k] : k \in 1..2}
        \cup {[Nominal EXCEPT !.latency = l] : l \in {"slow", "raise"}}
        \cup {[Nominal EXCEPT !.accuracy_ok = FALSE]}

\* the external calls of a pass that do not end in the nominal way
FaultsOf(o) == IF o = Nominal THEN 0 ELSE 1

VARIABLES
    pc,       \* "idle", "loop" (inside optimize's for loop), "returned", "raised"
    args,     \* the entry point called and its arguments
    ret,      \* what the call returned or raised
    calls,    \* the external calls made by the call so far, in order
    attrs,    \* the attributes assigned on the InferenceOptimizer (self)
    frame,    \* optimize's local variables once its checks have passed
    faults    \* external calls of this optimize() that went wrong so far

vars == <<pc, args, ret, calls, attrs, frame, faults>>

NoReturn == [outcome |-> "none", value |-> [class |-> "none"]]
NoFrame == [idx |-> 0]

Init ==
    /\ pc = "idle"
    /\ args = [op |-> "none"]
    /\ ret = NoReturn
    /\ calls = <<>>
    /\ attrs = EmptyDict
    /\ frame = NoFrame
    /\ faults = 0

\* a call that runs to its end in one step
Complete(op, a, r) ==
    /\ args' = [op |-> op, a |-> a]
    /\ ret' = [outcome |-> r.outcome, value |-> r.value]
    /\ calls' = r.calls
    /\ pc' = IF r.outcome = "return" THEN "returned" ELSE "raised"
    /\ UNCHANGED <<attrs, frame, faults>>

FromKeras ==
    /\ pc = "idle"
    /\ \E a \in FromKerasArgs : Complete("from_keras", a, from_keras(a))

Trace ==
    /\ pc = "idle"
    /\ \E a \in TraceArgs, ok \in BOOLEAN : Complete("trace", a, trace(a, ok))

Quantize ==
    /\ pc = "idle"
    /\ \E a \in QuantizeArgs, fail_at \in 0..2 :
          Complete("quantize", a, quantize(a, fail_at))

\* lines 137-200: the checks and the set-up before the loop
OptimizeSetup(a, e) ==
    LET attrs1 == DictSet(DictSet(EmptyDict, "_direction", a.direction),
                          "_calculate_accuracy",
                          CalculateAccuracy(a.validation_data, a.metric))
        baseline == [fn |-> "model", model |-> NanoModel]
    IN  IF ~OptimizeArgsValid(a)
        THEN [pc |-> "raised", ret |-> Raised("invalidInputError", <<>>),
              attrs |-> EmptyDict, frame |-> NoFrame]
        ELSE IF ~e.x_compatible
        THEN [pc |-> "raised", ret |-> Raised("invalidInputError", <<baseline>>),
              attrs |-> attrs1, frame |-> NoFrame]
        ELSE [pc |-> "loop", ret |-> Returned(NoReturn.value, <<baseline>>),
              attrs |-> attrs1,
              frame |->
                [idx |-> 1, model |-> NanoModel, x |-> a.x, y |-> a.y,
                 thread_num |-> EffectiveThreadNum(a.thread_num, e.omp),
                 logging |-> a.logging,
                 sample_size_for_pot |->
                     IF e.baseline_slow THEN SlowSampleSize ELSE FastSampleSize,
                 available_dict |->
                     available_acceleration_combination(
                         a.excludes, a.includes,
                         ALL_INFERENCE_ACCELERATION_METHOD, e.installed),
                 result_map |-> EmptyDict]]

OptimizeCall ==
    /\ pc = "idle"
    /\ \E a \in OptimizeArgs, e \in OptimizeEnvs :
          LET t == OptimizeSetup(a, e)
          IN  /\ args' = [op |-> "optimize", a |-> a]
              /\ pc' = t.pc
              /\ ret' = IF t.pc = "raised"
                        THEN [outcome |-> "raise", value |-> t.ret.value]
                        ELSE NoReturn
              /\ calls' = t.ret.calls
              /\ attrs' = t.attrs
              /\ frame' = t.frame
              /\ faults' = 0

\* the loop's state as OptimizeMethod takes it
LoopState ==
    [model |-> frame.model, x |-> frame.x, y |-> frame.y,
     thread_num |-> frame.thread_num, logging |-> frame.logging,
     sample_size_for_pot |-> frame.sample_size_for_pot,
     result_map |-> frame.result_map, calls |-> calls,
     calculate_accuracy |-> attrs["_calculate_accuracy"], raised |-> FALSE]

\* one pass of the for loop of lines 202-265
OptimizeLoop ==
    /\ pc = "loop"
    /\ frame.idx <= Len(frame.available_dict)
    /\ \E o \in Outcomes :
          LET item == frame.available_dict[frame.idx]
              t == OptimizeMethod(LoopState, item[1], item[2], o)
          IN  /\ faults + FaultsOf(o) <= MaxFaults
              \* a pass that never reaches the failing call is the nominal pass
              /\ o # Nominal =>
                     t # OptimizeMethod(LoopState, item[1], item[2], Nominal)
              /\ frame' = [frame EXCEPT !.idx = IF t.raised THEN @ ELSE @ + 1,
                                        !.result_map = t.result_map]
              /\ calls' = t.calls
              /\ attrs' = [attrs EXCEPT !["_calculate_accuracy"] =
                                            t.calculate_accuracy]
              /\ pc' = IF t.raised THEN "raised" ELSE "loop"
              /\ ret' = IF t.raised
                        THEN [outcome |-> "raise", value |-> [class |-> "Exception"]]
                        ELSE ret
              /\ faults' = faults + FaultsOf(o)
    /\ UNCHANGED args

\* lines 267-277: after the last method
OptimizeFinish ==
    /\ pc = "loop"
    /\ frame.idx > Len(frame.available_dict)
    /\ attrs' = DictSet(DictSet(attrs, "optimized_model_dict", frame.result_map),
                        "_optimize_result",
                        format_optimize_result(frame.result_map,
                                               attrs["_calculate_accuracy"]))
    /\ pc' = "returned"
    /\ ret' = [outcome |-> "return", value |-> [class |-> "NoneType"]]
    /\ UNCHANGED <<args, calls, frame, faults>>

\* the caller goes on to its next call, on a fresh InferenceOptimizer
\* ---------------------------------------------------------------------
\* The dataset readers: read_local (imagenet.py) and get_mnist
\* (dl_classifier_lenet.py).  A directory or file name is coded as a
\* natural number whose order is the string order of the names; an image
\* is named by its path <<directory, file>>, a sample is <<image, label>>.

MaxDirs == 3
MaxFiles == 2
MaxSamples == 2
NumClasses == 10

\* what os.listdir can return for a folder of class directories: the
\* directory names, each once, in any order
Listings ==
    {l \in UNION {[1..n -> 1..MaxDirs] : n \in 0..MaxDirs} :
        \A i, j \in DOMAIN l : i # j => l[i] # l[j]}

\* the folders read_local is given: the listing of the folder and the
\* listing of each of its directories
Folders ==
    UNION {{[listing |-> l, files |-> [d \in {l[i] : i \in DOMAIN l} |-> [k \in 1..c[d] |-> k]]] :
                c \in [{l[i] : i \in DOMAIN l} -> 0..MaxFiles]} :
           l \in Listings}

\* list.index(d): the 0-based position of the first element equal to d
index(dirs, d) == (CHOOSE i \in DOMAIN dirs : dirs[i] = d /\ \A j \in 1..(i - 1) : dirs[j] # d) - 1

sortMutant(dirs) == dirs

\* list.sort(): ascending order
RECURSIVE sort(_)
sort(dirs) ==
    IF dirs = <<>> THEN <<>>
    ELSE LET m == CHOOSE x \in {dirs[i] : i \in DOMAIN dirs} :
                      \A i \in DOMAIN dirs : x <= dirs[i]
             at == index(dirs, m) + 1
         IN  <<m>> \o sort(SubSeq(dirs, 1, at - 1) \o SubSeq(dirs, at + 1, Len(dirs)))

\* lines 39-42: the images of dirs[k], dirs[k+1], ... with their labels
RECURSIVE images_from(_, _, _)
images_from(dirs, files, k) ==
    IF k > Len(dirs) THEN <<>>
    ELSE [i \in DOMAIN files[dirs[k]] |->
             <<<<dirs[k], files[dirs[k]][i]>>, index(dirs, dirs[k]) + 1>>]
         \o images_from(dirs, files, k + 1)

\* lines 27-52; the maps of lines 45-51 turn each (path, label) into the
\* sample of the image read from that path with the same label
read_local(folder) ==
    LET dirs == sort(folder.listing)
    IN  Returned([class |-> "RDD", samples |-> images_from(dirs, folder.files, 1)], <<>>)

\* what mnist.read_data_sets returns: as many labels as images
ImageChoices == {"image_a", "image_b"}
MnistSets ==
    UNION {{[images |-> im, labels |-> lb] :
                im \in [1..n -> ImageChoices], lb \in [1..n -> 0..(NumClasses - 1)]} :
           n \in 0..MaxSamples}

\* lines 46-64: images.zip(labels), then label + 1
get_mnist(data) ==
    Returned([class |-> "RDD",
              samples |-> [i \in DOMAIN data.images |->
                              <<data.images[i], data.labels[i] + 1>>]], <<>>)

ReadLocal ==
    /\ pc = "idle"
    /\ \E folder \in Folders : Complete("read_local", folder, read_local(folder))

GetMnist ==
    /\ pc = "idle"
    /\ \E data \in MnistSets : Complete("get_mnist", data, get_mnist(data))

\* ---------------------------------------------------------------------
\* An Activity returned from the JVM to Python (callBigDlFunc of the
\* validator functions testActivityWithTensor, testActivityWithTableOfTensor
\* and testActivityWithTableOfTable).  A JVM Tensor is named by its first
\* element; a JVM Table is a map, the set of its <<key, activity>> entries
\* with the keys 1..n.

MaxValue == 2
MaxKeys == 2

Tensor(v) == [kind |-> "Tensor", value |-> v]
Table(entries) == [kind |-> "Table", value |-> entries]
JTensor(v) == [class |-> "JTensor", value |-> v]
JActivity(value) == [class |-> "JActivity", value |-> value]

\* the table that holds f[k] under key k
TableFrom(f) == Table({<<k, f[k]>> : k \in DOMAIN f})

\* what the validator functions can return: a tensor; a table of tensors
\* with keys 1..n, n = 1..MaxKeys (a table of such tables is drawn in
\* CallBigDlFunc)
testActivityWithTensor == {Tensor(v) : v \in 1..MaxValue}
testActivityWithTableOfTensor ==
    UNION {{TableFrom(f) : f \in [1..n -> testActivityWithTensor]} : n \in 1..MaxKeys}

\* the value a table holds under a key
TableGet(table, key) == (CHOOSE e \in table.value : e[1] = key)[2]

table_keysMutant(table) ==
    [i \in 1..Cardinality(table.value) |-> Cardinality(table.value) + 1 - i]

\* the keys of a table in the order its values are put in the list
table_keys(table) == [i \in 1..Cardinality(table.value) |-> i]

\* a Tensor becomes a JTensor, a Table the list of its converted values
RECURSIVE java2py(_)
java2py(activity) ==
    IF activity.kind = "Tensor" THEN JTensor(activity.value)
    ELSE [i \in DOMAIN table_keys(activity) |->
             java2py(TableGet(activity, table_keys(activity)[i]))]

callBigDlFunc(name, activity) == Returned(JActivity(java2py(activity)), <<>>)

BigDlFuncReturns(name, activity) ==
    Complete("callBigDlFunc", [name |-> name, activity |-> activity], callBigDlFunc(name, activity))

CallBigDlFunc ==
    /\ pc = "idle"
    /\ \/ \E activity \in testActivityWithTensor :
              BigDlFuncReturns("testActivityWithTensor", activity)
       \/ \E n \in 1..MaxKeys : \E f \in [1..n -> testActivityWithTensor] :
              BigDlFuncReturns("testActivityWithTableOfTensor", TableFrom(f))
       \/ \E n \in 1..MaxKeys : \E f \in [1..n -> testActivityWithTableOfTensor] :
              BigDlFuncReturns("testActivityWithTableOfTable", TableFrom(f))

NextCall ==
    /\ pc \in {"returned", "raised"}
    /\ pc' = "idle"
    /\ args' = [op |-> "none"]
    /\ ret' = NoReturn
    /\ calls' = <<>>
    /\ attrs' = EmptyDict
    /\ frame' = NoFrame
    /\ faults' = 0

Next ==
    \/ FromKeras
    \/ Trace
    \/ Quantize
    \/ ReadLocal
    \/ GetMnist
    \/ CallBigDlFunc
    \/ OptimizeCall
    \/ OptimizeLoop
    \/ OptimizeFinish
    \/ NextCall

Spec == Init /\ [][Next]_vars

(***************************************************************************)
(* Properties                                                               *)
(***************************************************************************)
InFromKeras == args.op = "from_keras"
InTrace == args.op = "trace"
InQuantize == args.op = "quantize"
\* optimize has been called
InOptimize == args.op = "optimize"
\* optimize has entered its method loop (and may have left it since)
EnteredLoop == InOptimize /\ frame.idx >= 1
\* the methods the loop has gone through so far
Tried == DOMAIN frame.result_map
\* the logged calls of function fn made for method m
CallsOf(fn, m) ==
    {i \in DOMAIN calls : calls[i].fn = fn /\ calls[i].method = m}
StepFns ==
    {"option.optimize", "throughput_calculate_helper",
     "_accuracy_calculate_helper"}
\* the logged steps (conversion, latency, accuracy) of optimize's loop
Steps == {i \in DOMAIN calls : calls[i].fn \in StepFns}

\* C1: from_keras with backend "tf2" or "horovod" returns a
\* TensorFlow2Estimator built with that same backend, with backend "spark" a
\* SparkTFEstimator; exactly one estimator is constructed, and model_creator,
\* config, verbose, workers_per_node and compile_args_creator reach it
\* unchanged.
C1_FromKerasDispatch ==
    (InFromKeras /\ args.a.backend \in {"tf2", "horovod", "spark"}) =>
        /\ ret.outcome = "return"
        /\ Len(calls) = 1
        /\ ret.value = calls[1]
        /\ ret.value.class = IF args.a.backend = "spark"
                             THEN "SparkTFEstimator"
                             ELSE "TensorFlow2Estimator"
        /\ args.a.backend # "spark" =>
               ret.value.kwargs.backend = args.a.backend
        /\ ret.value.kwargs.model_creator = args.a.model_creator
        /\ ret.value.kwargs.config = args.a.config
        /\ ret.value.kwargs.verbose = args.a.verbose
        /\ ret.value.kwargs.workers_per_node = args.a.workers_per_node
        /\ ret.value.kwargs.compile_args_creator = args.a.compile_args_creator

\* a horovod call has returned its estimator, with a config and two workers
C1_Witness ==
    /\ InFromKeras
    /\ args.a.backend = "horovod"
    /\ args.a.config # None
    /\ args.a.workers_per_node = MaxWorkers
    /\ ret.outcome = "return"
    /\ ret.value.class = "TensorFlow2Estimator"

\* C2: from_keras with any other backend string raises ValueError and
\* constructs no estimator.
C2_FromKerasRejects ==
    (InFromKeras /\ args.a.backend \notin {"tf2", "horovod", "spark"}) =>
        /\ pc = "raised"
        /\ ret.outcome = "raise"
        /\ ret.value.class = "ValueError"
        /\ calls = <<>>

\* a call with backend "ray" has raised
C2_Witness ==
    /\ InFromKeras
    /\ args.a.backend = "ray"
    /\ ret.outcome = "raise"

\* C3: once optimize is in its method loop, no failure of a conversion, of a
\* latency measurement or of an accuracy evaluation makes optimize raise.
C3_LoopNeverAborts == EnteredLoop => pc # "raised"

\* C4: a method whose conversion raised ends with status "fail to convert"
\* and its latency is never measured; a method whose latency measurement
\* raised ends with status "fail to forward"; neither entry has an
\* "accuracy" or a "model" key.
C4_FailureStatus ==
    EnteredLoop =>
        \A i \in Steps :
            LET m == calls[i].method
            IN  /\ (calls[i].fn = "option.optimize"
                        /\ calls[i].outcome = "raise") =>
                       /\ frame.result_map[m]["status"] = "fail to convert"
                       /\ CallsOf("throughput_calculate_helper", m) = {}
                       /\ DOMAIN frame.result_map[m] = {"status"}
                /\ (calls[i].fn = "throughput_calculate_helper"
                        /\ calls[i].outcome = "raise") =>
                       /\ frame.result_map[m]["status"] = "fail to forward"
                       /\ DOMAIN frame.result_map[m] = {"status"}

\* optimize has returned after one conversion raised
C4_Witness ==
    /\ InOptimize
    /\ pc = "returned"
    /\ \E i \in Steps :
          /\ calls[i].fn = "option.optimize"
          /\ calls[i].outcome = "raise"
          /\ attrs["optimized_model_dict"][calls[i].method]["status"]
                 = "fail to convert"

\* C5: after optimize returns, every entry of optimized_model_dict whose
\* status is "successful" has the keys "latency", "accuracy" and "model".
C5_SuccessfulEntriesComplete ==
    (InOptimize /\ pc = "returned") =>
        \A m \in DOMAIN attrs["optimized_model_dict"] :
            attrs["optimized_model_dict"][m]["status"] = "successful" =>
                {"latency", "accuracy", "model"}
                    \subseteq DOMAIN attrs["optimized_model_dict"][m]

\* C6: the methods optimize can try, hence the keys of optimized_model_dict,
\* are among "original", "openvino_fp32", "onnxruntime_fp32" and "int8".
C6_DocumentedMethods ==
    (InOptimize /\ pc = "returned") =>
        DOMAIN attrs["optimized_model_dict"]
            \subseteq {"original", "openvino_fp32", "onnxruntime_fp32", "int8"}

\* C7: trace with accelerator=None returns a model and does not raise.
C7_TraceNoneReturns ==
    (InTrace /\ args.a.accelerator = None) => ret.outcome = "return"

\* C8: optimize called with a model that is no Keras Model, a direction
\* other than 'min' and 'max', or no y while x is no Dataset raises an
\* invalid-input error, having run no conversion, latency or accuracy step
\* (nor any other external call) and assigned no attribute.
C8_InvalidArgsRejected ==
    (InOptimize /\ (\/ args.a.model.class \notin {"Model", "NanoModel"}
                    \/ args.a.direction \notin {"min", "max"}
                    \/ (args.a.y = None /\ args.a.x # "Dataset"))) =>
        /\ pc = "raised"
        /\ ret.value.class = "invalidInputError"
        /\ calls = <<>>
        /\ DOMAIN attrs = {}
        /\ frame = NoFrame

\* optimize has raised on a direction that is neither 'min' nor 'max', all
\* its other arguments being valid
C8_Witness ==
    /\ InOptimize
    /\ pc = "raised"
    /\ args.a.direction = "avg"
    /\ args.a.model.class = "Model"
    /\ args.a.y # None

\* C9: when validation_data or metric is None, _accuracy_calculate_helper is
\* never called and every method with status "successful" has accuracy None;
\* so the helper is called only when both are given.
C9_AccuracyOptional ==
    (EnteredLoop /\ (args.a.validation_data = None \/ args.a.metric = None)) =>
        /\ \A i \in DOMAIN calls : calls[i].fn # "_accuracy_calculate_helper"
        /\ \A m \in Tried :
               frame.result_map[m]["status"] = "successful" =>
                   /\ "accuracy" \in DOMAIN frame.result_map[m]
                   /\ frame.result_map[m]["accuracy"] = None

\* optimize has returned with a metric and no validation data, and a
\* quantized method was successful
C9_Witness ==
    /\ InOptimize
    /\ pc = "returned"
    /\ args.a.validation_data = None
    /\ args.a.metric # None
    /\ "int8" \in DOMAIN attrs["optimized_model_dict"]
    /\ attrs["optimized_model_dict"]["int8"]["status"] = "successful"

\* C10: quantize with an approach other than 'static' raises an invalid-input
\* error before any external call (tracing, building the calibration dataset,
\* quantizing), whatever the accelerator.
C10_OnlyStaticApproach ==
    (InQuantize /\ args.a.approach # "static") =>
        /\ pc = "raised"
        /\ ret.value.class = "invalidInputError"
        /\ calls = <<>>

\* quantize has raised on approach 'dynamic' with the onnxruntime accelerator
\* and arguments that are valid otherwise
C10_Witness ==
    /\ InQuantize
    /\ pc = "raised"
    /\ args.a.approach = "dynamic"
    /\ args.a.accelerator = Some("onnxruntime")
    /\ args.a.y # None

\* C11: with accelerator='onnxruntime', quantize called with method=None
\* makes the same calls and ends the same way as with method='qlinear', the
\* quantization being requested with framework 'onnxrt_qlinearops';
\* method='integer' requests framework 'onnxrt_integerops'.
C11_OnnxMethodDefault ==
    (InQuantize /\ args.a.accelerator = Some("onnxruntime")) =>
        /\ \A i \in DOMAIN calls :
               calls[i].fn = "inc_quantize" =>
                   /\ args.a.method \in {None, Some("qlinear")} =>
                          calls[i].framework = Some("onnxrt_qlinearops")
                   /\ args.a.method = Some("integer") =>
                          calls[i].framework = Some("onnxrt_integerops")
        /\ args.a.method = None =>
               \E f \in 0..2 :
                   LET r == quantize([args.a EXCEPT !.method = Some("qlinear")], f)
                   IN  /\ r.calls = calls
                       /\ r.outcome = ret.outcome
                       /\ r.value = ret.value

\* quantize with onnxruntime and method=None has returned a quantized model
C11_Witness ==
    /\ InQuantize
    /\ pc = "returned"
    /\ args.a.accelerator = Some("onnxruntime")
    /\ args.a.method = None
    /\ calls # <<>>
    /\ calls[Len(calls)].fn = "inc_quantize"
    /\ calls[Len(calls)].framework = Some("onnxrt_qlinearops")

\* C12: trace with a thread_num and accelerator 'openvino' or 'onnxruntime'
\* builds a model configured with thread_num threads (for onnxruntime: the
\* session options have intra_op_num_threads = inter_op_num_threads =
\* thread_num), whether or not the caller gives onnxruntime_session_options.
C12_ThreadNumApplied ==
    (InTrace /\ args.a.thread_num # None /\ calls # <<>>) =>
        /\ calls[1].fn = "KerasOpenVINOModel" =>
               calls[1].thread_num = args.a.thread_num
        /\ calls[1].fn = "KerasONNXRuntimeModel" =>
               /\ calls[1].onnxruntime_session_options.intra_op_num_threads
                      = args.a.thread_num[1]
               /\ calls[1].onnxruntime_session_options.inter_op_num_threads
                      = args.a.thread_num[1]

\* the place of method m in available_dict
Position(m) ==
    CHOOSE i \in DOMAIN frame.available_dict : frame.available_dict[i][1] = m
\* the passes of the loop begun so far
Begun == IF pc = "raised" THEN frame.idx ELSE frame.idx - 1

\* the steps of the loop are those of the first methods of available_dict,
\* in its order, each method handled once (converted once when available,
\* never when not), conversion before latency before accuracy; and
\* optimized_model_dict and the formatted result are assigned when optimize
\* returns and not before
OrderKept ==
    /\ Tried = {frame.available_dict[i][1] : i \in 1..Begun}
    /\ \A i \in 1..Begun :
           Cardinality(CallsOf("option.optimize", frame.available_dict[i][1]))
               = IF frame.available_dict[i][2] THEN 1 ELSE 0
    /\ \A i \in Steps :
           /\ calls[i].method \in Tried
           /\ Cardinality(CallsOf(calls[i].fn, calls[i].method)) = 1
    /\ \A i, j \in Steps :
           i < j =>
               /\ Position(calls[i].method) <= Position(calls[j].method)
               /\ calls[i].method = calls[j].method =>
                      /\ calls[j].fn # "option.optimize"
                      /\ calls[i].fn # "_accuracy_calculate_helper"
    /\ ("optimized_model_dict" \in DOMAIN attrs) <=> (pc = "returned")
    /\ ("_optimize_result" \in DOMAIN attrs) <=> (pc = "returned")

\* C13: optimize goes through the methods one after the other in the order
\* of available_dict, each handled exactly once, and ends after the last
\* method, assigning optimized_model_dict and the formatted result only
\* then: a call that has entered the loop and ended has an entry for every
\* method of available_dict and has assigned optimized_model_dict.
C13_SequentialToTheEnd ==
    EnteredLoop =>
        /\ OrderKept
        /\ pc # "loop" =>
               /\ Tried = {frame.available_dict[i][1] :
                              i \in DOMAIN frame.available_dict}
               /\ "optimized_model_dict" \in DOMAIN attrs
               /\ attrs["optimized_model_dict"] = frame.result_map

InReadLocal == args.op = "read_local"
InGetMnist == args.op = "get_mnist"

\* the number of directories of the listing whose name sorts before d: the
\* index of d in the sorted listing
Rank(listing, d) == Cardinality({i \in DOMAIN listing : listing[i] < d})

\* the labels that occur on the samples
LabelsOf(samples) == {samples[i][2] : i \in DOMAIN samples}

\* every image file of the folder is in exactly one sample, with the label
\* (index of its directory in the sorted listing) + 1, and there is no
\* other sample
FilesLabelled ==
    LET listing == args.a.listing
        files == args.a.files
        samples == ret.value.samples
    IN  /\ \A i \in DOMAIN samples :
               /\ samples[i][1][1] \in DOMAIN files
               /\ samples[i][2] = Rank(listing, samples[i][1][1]) + 1
        /\ \A d \in DOMAIN files : \A k \in DOMAIN files[d] :
               Cardinality({i \in DOMAIN samples : samples[i][1] = <<d, files[d][k]>>}) = 1
        /\ \A i, j \in DOMAIN samples :
               (samples[i][1][1] = samples[j][1][1]) <=> (samples[i][2] = samples[j][2])

\* get_mnist: sample i is image i with label i plus one
MnistPaired ==
    /\ Len(ret.value.samples) = Len(args.a.images)
    /\ \A i \in DOMAIN ret.value.samples :
           ret.value.samples[i] = <<args.a.images[i], args.a.labels[i] + 1>>

\* C14 as stated: read_local labels every image file with (index of its
\* class directory in the sorted listing) + 1, files of one directory share
\* a label, distinct directories have distinct labels, and the labels are
\* exactly 1..number of directories; get_mnist pairs image i with label
\* l + 1.
C14_LabelsExactlyOneToN ==
    /\ InReadLocal =>
           /\ FilesLabelled
           /\ LabelsOf(ret.value.samples) = 1..Len(args.a.listing)
    /\ InGetMnist => MnistPaired

\* C14, amended: as above, but the labels lie within 1..number of
\* directories and the label of every directory that holds at least one
\* file occurs; a directory without files contributes no sample, so its
\* label does not occur.
C14_LabelsWithinOneToN ==
    /\ InReadLocal =>
           /\ FilesLabelled
           /\ LabelsOf(ret.value.samples) =
                  {Rank(args.a.listing, d) + 1 :
                      d \in {e \in DOMAIN args.a.files : args.a.files[e] # <<>>}}
           /\ LabelsOf(ret.value.samples) \subseteq 1..Len(args.a.listing)
    /\ InGetMnist => MnistPaired

\* read_local has read a folder whose listing is not in sorted order, with
\* one directory empty and another holding two files
C14_Witness ==
    /\ InReadLocal
    /\ pc = "returned"
    /\ Len(args.a.listing) = 3
    /\ args.a.listing[1] > args.a.listing[2]
    /\ \E d, e \in DOMAIN args.a.files :
           /\ args.a.files[d] = <<>>
           /\ Len(args.a.files[e]) = 2
    /\ Len(ret.value.samples) >= 2

InCallBigDlFunc == args.op = "callBigDlFunc"

\* the list is the table in key order: as long as the table, element i the
\* JTensor of the tensor under key i
ListOfJTensor(list, table) ==
    /\ list \in Seq({JTensor(v) : v \in 1..MaxValue})
    /\ Len(list) = Cardinality(table.value)
    /\ \A i \in DOMAIN list : list[i] = JTensor(TableGet(table, i).value)

\* C15: an Activity returned from the JVM keeps its structure and order: a
\* tensor arrives as a JTensor, a table of tensors as a list of JTensor
\* whose element i is the tensor under key i, a table of tables as a list,
\* in key order, of such lists.
C15_ActivityKept ==
    InCallBigDlFunc =>
        LET back == ret.value
            activity == args.a.activity
        IN  /\ back.class = "JActivity"
            /\ args.a.name = "testActivityWithTensor" =>
                   back.value = JTensor(activity.value)
            /\ args.a.name = "testActivityWithTableOfTensor" =>
                   ListOfJTensor(back.value, activity)
            /\ args.a.name = "testActivityWithTableOfTable" =>
                   /\ Len(back.value) = Cardinality(activity.value)
                   /\ \A i \in DOMAIN back.value :
                          ListOfJTensor(back.value[i], TableGet(activity, i))

\* a table of two tensors, the smaller under key 1, has come back as the
\* list of two JTensor with the smaller first
C15_Witness ==
    /\ InCallBigDlFunc
    /\ pc = "returned"
    /\ args.a.name = "testActivityWithTableOfTensor"
    /\ args.a.activity = Table({<<1, Tensor(1)>>, <<2, Tensor(2)>>})
    /\ ret.value.value = <<JTensor(1), JTensor(2)>>

====
